---- MODULE Spec2Model ----
(***************************************************************************)
(* A model of the argument-mining application: the Streamlit page of       *)
(* main.py (one run of main() per user interaction, session_state kept     *)
(* between runs), the pydantic data model of src/models.py, the IBIS       *)
(* extraction of src/strategies/ibis.py and the two plotting functions of  *)
(* src/plotter.py.                                                         *)
(*                                                                         *)
(* Python values: an Optional value is the record None or Some(v); a list  *)
(* is a sequence; a pydantic object is a record of its fields.  Floating   *)
(* point coordinates are drawn from a small integer grid, on which         *)
(* int((x - lo) / (hi - lo) * 205 + 50) equals ((x - lo) * 205) \div       *)
(* (hi - lo) + 50 (the products k*205/range that are whole numbers are     *)
(* computed exactly in binary64 for every range up to 11).                 *)
(***************************************************************************)
EXTENDS Integers, Sequences, FiniteSets

\* ------------------------------------------------------------------------
\* Bounds of the model
\* ------------------------------------------------------------------------

\* most nodes in a graph handed to the plotting functions
MaxNodes == 3

\* coordinates of a 2-D position are drawn from 0..MaxCoord
MaxCoord == 2

\* most edges in a graph handed to the plotting functions
MaxEdges == 2

\* most nodes in a response of the extraction call
MaxRespNodes == 2

\* ------------------------------------------------------------------------
\* Python values
\* ------------------------------------------------------------------------

None == [some |-> FALSE]

Some(v) == [some |-> TRUE, val |-> v]

\* bool(list) / bool(tuple) of an Optional sequence: None and [] are falsy
TruthySeq(o) == o.some /\ Len(o.val) > 0

\* bool(str) of an Optional string: None and "" are falsy
TruthyStr(o) == o.some /\ o.val # ""

SeqMin(s) == CHOOSE m \in {s[i] : i \in DOMAIN s} : \A i \in DOMAIN s : m <= s[i]

SeqMax(s) == CHOOSE m \in {s[i] : i \in DOMAIN s} : \A i \in DOMAIN s : m >= s[i]

\* the elements s[i] with keep[i] true, in order (a list built by a loop
\* with a conditional append)
RECURSIVE Filter(_, _)
Filter(s, keep) ==
    IF s = <<>> THEN <<>>
    ELSE (IF Head(keep) THEN <<Head(s)>> ELSE <<>>) \o Filter(Tail(s), Tail(keep))

\* ------------------------------------------------------------------------
\* src/models.py
\* ------------------------------------------------------------------------

Node(id, content, speaker, type, sequence, position_2d) ==
    [id |-> id, content |-> content, speaker |-> speaker, type |-> type,
     sequence |-> sequence, position_2d |-> position_2d]

Edge(source, target, label) ==
    [source |-> source, target |-> target, label |-> label]

ArgumentGraph(nodes, edges) == [nodes |-> nodes, edges |-> edges]

\* JSON values as the model's response decodes to Python: a key that is
\* absent, null, a string, a number, a list
Missing == [j |-> "missing"]

JNull == [j |-> "null"]

JStr(s) == [j |-> "str", v |-> s]

JNum(n) == [j |-> "num", v |-> n]

JList(l) == [j |-> "list", v |-> l]

\* a field annotated str: required, and a string
IsStr(x) == x.j = "str"

\* a field annotated str | None = None
IsOptStr(x) == x.j \in {"missing", "null", "str"}

\* a field annotated int | None = None
IsOptInt(x) == x.j \in {"missing", "null", "num"}

\* a field annotated list[float] | None = None
IsOptFloats(x) ==
    \/ x.j \in {"missing", "null"}
    \/ x.j = "list" /\ \A i \in DOMAIN x.v : x.v[i].j = "num"

\* the Optional value of a validated optional field
OptVal(x) ==
    IF x.j \in {"missing", "null"} THEN None
    ELSE IF x.j = "list" THEN Some([i \in DOMAIN x.v |-> x.v[i].v])
    ELSE Some(x.v)

\* pydantic's validation of one node: its declared fields and their types,
\* and nothing else (the type field is any string)
NodeValid(d) ==
    /\ IsStr(d.id)
    /\ IsStr(d.content)
    /\ IsOptStr(d.speaker)
    /\ IsStr(d.type)
    /\ IsOptInt(d.sequence)
    /\ IsOptFloats(d.position_2d)

\* pydantic's validation of one edge; nodes is the list of nodes of the
\* same graph, which the validation does not look at
EdgeValid(d, nodes) ==
    /\ IsStr(d.source)
    /\ IsStr(d.target)
    /\ IsStr(d.label)

\* ArgumentGraph(**data): both lists are required, every element validates
GraphValid(d) ==
    /\ d.nodes.j = "list"
    /\ d.edges.j = "list"
    /\ \A i \in DOMAIN d.nodes.v : NodeValid(d.nodes.v[i])
    /\ \A i \in DOMAIN d.edges.v : EdgeValid(d.edges.v[i], d.nodes.v)

\* the ArgumentGraph built from data that validates
GraphOf(d) ==
    ArgumentGraph(
        [i \in DOMAIN d.nodes.v |->
            Node(d.nodes.v[i].id.v, d.nodes.v[i].content.v,
                 OptVal(d.nodes.v[i].speaker), d.nodes.v[i].type.v,
                 OptVal(d.nodes.v[i].sequence), OptVal(d.nodes.v[i].position_2d))],
        [i \in DOMAIN d.edges.v |->
            Edge(d.edges.v[i].source.v, d.edges.v[i].target.v, d.edges.v[i].label.v)])

\* a node and an edge as JSON
JNode(id, content, speaker, type, sequence, position_2d) ==
    [id |-> id, content |-> content, speaker |-> speaker, type |-> type,
     sequence |-> sequence, position_2d |-> position_2d]

JEdge(source, target, label) ==
    [source |-> source, target |-> target, label |-> label]

JGraph(nodes, edges) == [nodes |-> nodes, edges |-> edges]

\* ------------------------------------------------------------------------
\* src/plotter.py
\* ------------------------------------------------------------------------

HexDigits == <<"0", "1", "2", "3", "4", "5", "6", "7",
               "8", "9", "a", "b", "c", "d", "e", "f">>

RECURSIVE HexOf(_)
HexOf(n) ==
    IF n < 16 THEN <<HexDigits[n + 1]>>
    ELSE HexOf(n \div 16) \o <<HexDigits[(n % 16) + 1]>>

\* format(n, "02x"): lower-case hex, zero padded to a minimum width of 2
Format02x(n) == IF Len(HexOf(n)) < 2 THEN <<"0">> \o HexOf(n) ELSE HexOf(n)

\* f"#{r:02x}{g:02x}{b:02x}" as a sequence of characters
ColorRgb(r, g, b) == <<"#">> \o Format02x(r) \o Format02x(g) \o Format02x(b)

\* Channel without its guard: a range of zero is divided by, and the
\* component comes out as 0
ChannelDegenerateZero(col) ==
    LET lo == SeqMin(col)
        hi == SeqMax(col)
    IN  IF (hi - lo) > 0
        THEN [values |-> [i \in DOMAIN col |->
                             ((col[i] - lo) * 205) \div (hi - lo) + 50],
              divided_by |-> {hi - lo}]
        ELSE [values |-> [i \in DOMAIN col |-> 0], divided_by |-> {hi - lo}]

\* Channel scaled into 0..255 instead of 50..255
ChannelFullRange(col) ==
    LET lo == SeqMin(col)
        hi == SeqMax(col)
    IN  IF (hi - lo) > 0
        THEN [values |-> [i \in DOMAIN col |->
                             ((col[i] - lo) * 255) \div (hi - lo)],
              divided_by |-> {hi - lo}]
        ELSE [values |-> [i \in DOMAIN col |-> 128], divided_by |-> {}]

\* One colour channel of a column of coordinates: scaled into 50..255 when
\* the column's range is positive, else the constant 128.  divided_by
\* records the divisors the computation used.
Channel(col) ==
    LET lo == SeqMin(col)
        hi == SeqMax(col)
    IN  IF (hi - lo) > 0
        THEN [values |-> [i \in DOMAIN col |->
                             ((col[i] - lo) * 205) \div (hi - lo) + 50],
              divided_by |-> {hi - lo}]
        ELSE [values |-> [i \in DOMAIN col |-> 128], divided_by |-> {}]

\* dict.get on a map built from (key, value) rows: the last row with the
\* key wins, a missing key gives None
DictGet(keys, vals, k) ==
    IF \E i \in DOMAIN keys : keys[i] = k
    THEN Some(vals[CHOOSE i \in DOMAIN keys :
                      /\ keys[i] = k
                      /\ \A j \in DOMAIN keys : keys[j] = k => j <= i])
    ELSE None

\* XColumn read from the wrong field
XColumnBySequence(nodes) == [i \in DOMAIN nodes |-> nodes[i].sequence.val]

\* the x column of the node table: position_2d[0] of every node
XColumn(nodes) == [i \in DOMAIN nodes |-> nodes[i].position_2d.val[1]]

\* the y column of the node table: position_2d[1] of every node
YColumn(nodes) == [i \in DOMAIN nodes |-> nodes[i].position_2d.val[2]]

\* the guard of generate_plot: some node, and every node has a non-empty
\* position_2d
PlotGuard(graph) ==
    /\ graph.nodes # <<>>
    /\ \A i \in DOMAIN graph.nodes : TruthySeq(graph.nodes[i].position_2d)

\* PlotEdges that looks at the source of an edge only
PlotEdgesSourceOnly(graph, ids, pos) ==
    LET Drawn(e) == DictGet(ids, pos, e.source).some
        kept == Filter(graph.edges, [k \in DOMAIN graph.edges |-> Drawn(graph.edges[k])])
    IN  [k \in DOMAIN kept |->
            LET s == DictGet(ids, pos, kept[k].source)
                t == DictGet(ids, pos, kept[k].target)
            IN  [x1 |-> s.val[1], y1 |-> s.val[2],
                 x2 |-> IF t.some THEN t.val[1] ELSE 0,
                 y2 |-> IF t.some THEN t.val[2] ELSE 0]]

\* the edges whose two ends are both in the position map, as drawn
PlotEdges(graph, ids, pos) ==
    LET Drawn(e) == /\ TruthySeq(DictGet(ids, pos, e.source))
                    /\ TruthySeq(DictGet(ids, pos, e.target))
        kept == Filter(graph.edges, [k \in DOMAIN graph.edges |-> Drawn(graph.edges[k])])
    IN  [k \in DOMAIN kept |->
            LET s == DictGet(ids, pos, kept[k].source).val
                t == DictGet(ids, pos, kept[k].target).val
            IN  [x1 |-> s[1], y1 |-> s[2], x2 |-> t[1], y2 |-> t[2]]]

\* TopicMapPlotter.generate_plot: None, or the chart's node table and edge
\* table.  label_text (the speaker prefix and the content cut to 30
\* characters) is kept as its two sources, speaker_prefix and content_full.
generate_plot(graph) ==
    IF ~PlotGuard(graph) THEN None
    ELSE
      LET nodes == graph.nodes
          xs == XColumn(nodes)
          ys == YColumn(nodes)
          r == Channel(xs)
          g == Channel(ys)
          ids == [i \in DOMAIN nodes |-> nodes[i].id]
          pos == [i \in DOMAIN nodes |-> <<xs[i], ys[i]>>]
      IN  Some([nodes |-> [i \in DOMAIN nodes |->
                   [id |-> nodes[i].id,
                    x |-> xs[i],
                    y |-> ys[i],
                    content_full |-> nodes[i].content,
                    speaker_prefix |-> IF TruthyStr(nodes[i].speaker)
                                       THEN nodes[i].speaker.val ELSE "Unknown",
                    type |-> nodes[i].type,
                    sequence |-> nodes[i].sequence,
                    r |-> r.values[i],
                    g |-> g.values[i],
                    b |-> 128,
                    color_rgb |-> ColorRgb(r.values[i], g.values[i], 128)]],
                edges |-> PlotEdges(graph, ids, pos),
                divided_by |-> r.divided_by \cup g.divided_by])

\* TimelineGuard without the test of the sequence
TimelineGuardPositionsOnly(graph) ==
    /\ graph.nodes # <<>>
    /\ \A i \in DOMAIN graph.nodes : TruthySeq(graph.nodes[i].position_2d)

\* the guard of generate_timeline_plot: some node, and every node has a
\* sequence and a non-empty position_2d
TimelineGuard(graph) ==
    /\ graph.nodes # <<>>
    /\ \A i \in DOMAIN graph.nodes :
          /\ graph.nodes[i].sequence # None
          /\ TruthySeq(graph.nodes[i].position_2d)

\* the edges whose two ends are both in the (sequence, speaker) map, as
\* drawn; mid_x2 is twice mid_x = (x1 + x2) / 2
TimelineEdges(graph, ids, pos) ==
    LET Drawn(e) == /\ TruthySeq(DictGet(ids, pos, e.source))
                    /\ TruthySeq(DictGet(ids, pos, e.target))
        kept == Filter(graph.edges, [k \in DOMAIN graph.edges |-> Drawn(graph.edges[k])])
    IN  [k \in DOMAIN kept |->
            LET s == DictGet(ids, pos, kept[k].source).val
                t == DictGet(ids, pos, kept[k].target).val
            IN  [x1 |-> s[1], y1 |-> s[2], x2 |-> t[1], y2 |-> t[2],
                 label |-> kept[k].label,
                 mid_x2 |-> IF s[1].some /\ t[1].some
                            THEN s[1].val + t[1].val ELSE 0]]

\* TopicMapPlotter.generate_timeline_plot: None, or the chart's node table
\* and edge table
generate_timeline_plot(graph) ==
    IF ~TimelineGuard(graph) THEN None
    ELSE
      LET nodes == graph.nodes
          xs == XColumn(nodes)
          ys == YColumn(nodes)
          r == Channel(xs)
          g == Channel(ys)
          ids == [i \in DOMAIN nodes |-> nodes[i].id]
          speakers == [i \in DOMAIN nodes |->
                          IF TruthyStr(nodes[i].speaker)
                          THEN nodes[i].speaker.val ELSE "Unknown"]
          pos == [i \in DOMAIN nodes |-> <<nodes[i].sequence, speakers[i]>>]
      IN  Some([nodes |-> [i \in DOMAIN nodes |->
                   [id |-> nodes[i].id,
                    sequence |-> nodes[i].sequence,
                    speaker |-> speakers[i],
                    x_topic |-> xs[i],
                    y_topic |-> ys[i],
                    content_full |-> nodes[i].content,
                    type |-> nodes[i].type,
                    r |-> r.values[i],
                    g |-> g.values[i],
                    b |-> 128,
                    color_rgb |-> ColorRgb(r.values[i], g.values[i], 128)]],
                edges |-> TimelineEdges(graph, ids, pos),
                divided_by |-> r.divided_by \cup g.divided_by])

\* ------------------------------------------------------------------------
\* State
\* ------------------------------------------------------------------------

VARIABLES
    graph,            \* the ArgumentGraph handed to a plotting function
    graph2,           \* a second ArgumentGraph, handed to the same function
    called,           \* the plotting function that was called, or "none"
    chart,            \* what the function returned for graph
    chart2,           \* what the function returned for graph2
    data,             \* the decoded JSON a graph is constructed from
    constructed,      \* "no", "yes", or "ValidationError"
    \* the page of main.py
    pc,               \* where the current run of main() stands
    heap,             \* the ArgumentGraph objects, by reference
    graph_data,       \* st.session_state["graph_data"]: a reference, 0 = None
    local_graph,      \* main's local variable graph: a reference, 0 = unbound
    button,           \* the run button was pressed for this run
    text_blank,       \* text_area_val.strip() is empty
    use_topic_analysis,
    strategy_option,
    vectors,          \* main's local variable vectors
    positions,        \* main's local variable positions
    extract_calls,    \* fetch_json calls made in this run
    embed_calls,      \* fetch_embeddings calls made in this run
    errors_shown,     \* st.error messages of the except handler in this run
    failed_step,      \* the step of this run that raised, or "none"
    before,           \* the value of graph_data when this run began
    rendered,         \* the main area of the page was rendered in this run
    topic_map_chart,  \* what the main area got from generate_plot
    timeline_chart,   \* what the main area got from generate_timeline_plot
    json_shown        \* the graph dumped by st.json, or None

plotVars == <<graph, graph2, called, chart, chart2, constructed>>

inputVars == <<button, text_blank, use_topic_analysis, strategy_option>>

runVars == <<extract_calls, embed_calls, errors_shown, failed_step, before, rendered>>

pageVars == <<topic_map_chart, timeline_chart, json_shown>>

appVars == <<pc, heap, graph_data, local_graph, vectors, positions,
             inputVars, runVars, pageVars>>

vars == <<plotVars, data, appVars>>

\* the page before its first run, as the plotting specifications keep it
AppIdle ==
    /\ pc = "idle"
    /\ heap = [o \in {1, 2} |-> ArgumentGraph(<<>>, <<>>)]
    /\ graph_data = 0
    /\ local_graph = 0
    /\ button = FALSE
    /\ text_blank = TRUE
    /\ use_topic_analysis = TRUE
    /\ strategy_option = "IBIS"
    /\ vectors = <<>>
    /\ positions = <<>>
    /\ extract_calls = 0
    /\ embed_calls = 0
    /\ errors_shown = 0
    /\ failed_step = "none"
    /\ before = None
    /\ rendered = FALSE
    /\ topic_map_chart = None
    /\ timeline_chart = None
    /\ json_shown = None

\* ------------------------------------------------------------------------
\* Graphs handed to the plotting functions
\* ------------------------------------------------------------------------

NodeIds == <<"n1", "n2", "n3", "n4", "n5", "n6">>

Coords == 0..MaxCoord

Points == {<<x, y>> : x \in Coords, y \in Coords}

\* position_2d: absent, empty, or a point
Positions == {None, Some(<<>>)} \cup {Some(p) : p \in Points}

EmptyGraph == ArgumentGraph(<<>>, <<>>)

\* Graphs of up to MaxNodes nodes, each with any position (or none), in
\* transcript order, without edges.
ColourGraph(n, p) ==
    ArgumentGraph([i \in 1..n |->
                     Node(NodeIds[i], "content", None, "issue", Some(i), p[i])],
                  <<>>)

InitColour ==
    /\ \E n \in 0..MaxNodes : \E p \in [1..n -> Positions] :
          graph = ColourGraph(n, p)
    /\ graph2 = EmptyGraph
    /\ called = "none"
    /\ chart = None
    /\ chart2 = None
    /\ data = JNull
    /\ constructed = "yes"
    /\ AppIdle

\* Pairs of graphs with the same list of positions: graph has the plain
\* attributes, graph2 differs from it, node by node, in id, content, speaker,
\* type and sequence, and in its edges.
PairPoints == {<<x, y>> : x \in Coords, y \in {0, 1}}

VariantNode(v, i, p) ==
    IF v = 1 THEN Node(NodeIds[i], "content", None, "issue", Some(i), Some(p))
    ELSE Node("dup", "other content", Some("B"), "decision", Some(7 - i), Some(p))

PairEdges == {<<>>, <<Edge("n1", "dup", "supports")>>}

InitPair ==
    /\ \E n \in 0..MaxNodes : \E p \in [1..n -> PairPoints] :
       \E v \in [1..n -> {1, 2}] : \E e \in PairEdges :
          /\ graph = ArgumentGraph([i \in 1..n |-> VariantNode(1, i, p[i])], <<>>)
          /\ graph2 = ArgumentGraph([i \in 1..n |-> VariantNode(v[i], i, p[i])], e)
    /\ called = "none"
    /\ chart = None
    /\ chart2 = None
    /\ data = JNull
    /\ constructed = "yes"
    /\ AppIdle

\* Graphs constructed from JSON whose edges name any of EdgeEnds, among
\* them ids of no node.  Node i sits at its own point of the grid.
EdgeEnds == {"n1", "n2", "n9"}

PointOf(i) == <<i % (MaxCoord + 1), i \div (MaxCoord + 1)>>

EdgeNode(c, i) ==
    JNode(JStr(NodeIds[i]), JStr("content"),
          IF i % 2 = 1 THEN JStr("A") ELSE JNull,
          JStr("issue"),
          IF c = 2 THEN JNull ELSE JNum(i),
          IF c = 3 THEN JNull
          ELSE JList(<<JNum(PointOf(i)[1]), JNum(PointOf(i)[2])>>))

EdgeLists ==
    UNION {[1..m -> {JEdge(JStr(a), JStr(b), JStr("supports")) :
                        a \in EdgeEnds, b \in EdgeEnds}] : m \in 0..MaxEdges}

EdgeData(n, c, e) ==
    JGraph(JList([i \in 1..n |-> EdgeNode(c[i], i)]), JList(e))

InitEdges ==
    /\ \E n \in 0..MaxNodes : \E c \in [1..n -> {1, 2, 3}] : \E e \in EdgeLists :
          data = EdgeData(n, c, e)
    /\ constructed = "no"
    /\ graph = EmptyGraph
    /\ graph2 = EmptyGraph
    /\ called = "none"
    /\ chart = None
    /\ chart2 = None
    /\ AppIdle

\* ------------------------------------------------------------------------
\* Calls of the plotting functions
\* ------------------------------------------------------------------------

\* ArgumentGraph(**data)
Construct ==
    /\ constructed = "no"
    /\ IF GraphValid(data)
       THEN graph' = GraphOf(data) /\ constructed' = "yes"
       ELSE graph' = graph /\ constructed' = "ValidationError"
    /\ UNCHANGED <<graph2, called, chart, chart2, data, appVars>>

CallGeneratePlot ==
    /\ constructed = "yes"
    /\ called = "none"
    /\ called' = "generate_plot"
    /\ chart' = generate_plot(graph)
    /\ chart2' = generate_plot(graph2)
    /\ UNCHANGED <<graph, graph2, data, constructed, appVars>>

CallGenerateTimelinePlot ==
    /\ constructed = "yes"
    /\ called = "none"
    /\ called' = "generate_timeline_plot"
    /\ chart' = generate_timeline_plot(graph)
    /\ chart2' = generate_timeline_plot(graph2)
    /\ UNCHANGED <<graph, graph2, data, constructed, appVars>>

PlotNext == CallGeneratePlot \/ CallGenerateTimelinePlot

SpecColour == InitColour /\ [][PlotNext]_vars

SpecPair == InitPair /\ [][PlotNext]_vars

EdgesNext == Construct \/ CallGeneratePlot \/ CallGenerateTimelinePlot

SpecEdges == InitEdges /\ [][EdgesNext]_vars

\* ------------------------------------------------------------------------
\* External calls: what they return or raise
\* ------------------------------------------------------------------------

Raised(e) == [ok |-> FALSE, exc |-> e]

Returned(v) == [ok |-> TRUE, val |-> v]

\* The type the model writes into a node: two of the IBIS tags, a string
\* that is no IBIS tag, or null.
ResponseTypes == {JStr("issue"), JStr("decision"), JStr("question"), JNull}

ResponseNode(t, i) ==
    JNode(JStr(NodeIds[i]), JStr("content"), JStr("A"), t, JNum(i), Missing)

\* The decoded JSON of a response: up to MaxRespNodes nodes, and one edge
\* from n2 to n1 when there is a node (with a single node n2 names no node).
ResponseData ==
    UNION {
      {JGraph(JList([i \in 1..n |-> ResponseNode(t[i], i)]),
              JList(IF n = 0 THEN <<>>
                    ELSE <<JEdge(JStr("n2"), JStr("n1"), JStr("supports"))>>)) :
          t \in [1..n -> ResponseTypes]}
      : n \in 0..MaxRespNodes}

\* LLMClient.fetch_json(system_prompt, text)
FetchJsonOutcomes == {Raised("APIError")} \cup {Returned(d) : d \in ResponseData}

\* LLMClient.fetch_embeddings(texts): a vector per text, written as the
\* index of its text; the service may also return a list one short
FetchEmbeddingsOutcomes(texts) ==
    {Raised("APIError")}
       \cup {Returned([i \in 1..m |-> i]) :
                m \in {Len(texts)} \cup (IF Len(texts) > 0 THEN {Len(texts) - 1} ELSE {})}

\* reduce_dimensions_pca(vectors): a 2-D position per vector
ReduceOutcomes(vs) ==
    {Raised("ValueError")}
       \cup {Returned([i \in DOMAIN vs |-> PointOf(vs[i] + o)]) : o \in {0, 1}}

\* ------------------------------------------------------------------------
\* src/strategies/ibis.py
\* ------------------------------------------------------------------------

\* IBISStrategy.analyze, given what fetch_json did: the exception it
\* raised goes up, the data it returned goes to ArgumentGraph(**data)
IBISAnalyze(resp) ==
    IF ~resp.ok THEN resp
    ELSE IF GraphValid(resp.val) THEN Returned(GraphOf(resp.val))
    ELSE Raised("ValidationError")

\* ToulminStrategy.analyze: the same contract
ToulminAnalyze(resp) == IBISAnalyze(resp)

\* ------------------------------------------------------------------------
\* main.py
\* ------------------------------------------------------------------------

\* "IBIS" in strategy_option
UsesIBIS(option) == option = "IBIS"

\* a try block that ends before the topic analysis
TryCoversExtractionOnly(step) == step \in {"analyze"}

\* the steps of the chain that the try block encloses
TryCovers(step) == step \in {"analyze", "embed", "reduce", "attach"}

\* a handler that discards the session's graph
ExceptHandlerClears(gd) == 0

\* what the except handler leaves in st.session_state["graph_data"]
ExceptHandler(gd) == gd

\* a condition that ignores the checkbox
TopicAnalysisWantedAlways(use, g) == g.nodes # <<>>

\* the condition under which the topic analysis runs
TopicAnalysisWanted(use, g) == use /\ g.nodes # <<>>

SessionGraph == IF graph_data = 0 THEN None ELSE Some(heap[graph_data])

\* the heap without the objects no reference in refs reaches
Collect(h, refs) ==
    [o \in DOMAIN h |-> IF o \in refs THEN h[o] ELSE ArgumentGraph(<<>>, <<>>)]

\* a step raised: the handler shows the error once and the run goes on
\* below the sidebar, or the exception leaves main
Fail(step) ==
    /\ failed_step' = step
    /\ IF TryCovers(step)
       THEN /\ errors_shown' = errors_shown + 1
            /\ graph_data' = ExceptHandler(graph_data)
            /\ pc' = "render"
       ELSE /\ errors_shown' = errors_shown
            /\ graph_data' = graph_data
            /\ pc' = "crashed"

\* a run of main() begins: the widgets are read
BeginRun ==
    /\ pc \in {"idle", "crashed"}
    /\ \E b \in BOOLEAN, blank \in BOOLEAN, use \in BOOLEAN,
          option \in {"IBIS", "Toulmin"} :
          /\ button' = b
          /\ text_blank' = blank
          /\ use_topic_analysis' = use
          /\ strategy_option' = option
          /\ pc' = IF b /\ ~blank THEN "analyze" ELSE "render"
    /\ before' = SessionGraph
    /\ extract_calls' = 0
    /\ embed_calls' = 0
    /\ errors_shown' = 0
    /\ failed_step' = "none"
    /\ rendered' = FALSE
    /\ topic_map_chart' = None
    /\ timeline_chart' = None
    /\ json_shown' = None
    /\ data' = JNull
    /\ local_graph' = 0
    /\ UNCHANGED <<heap, graph_data, vectors, positions, plotVars>>

\* graph = strategy.analyze(text_area_val)
Analyze ==
    /\ pc = "analyze"
    /\ extract_calls' = extract_calls + 1
    /\ \E resp \in FetchJsonOutcomes :
          LET result == IF UsesIBIS(strategy_option)
                        THEN IBISAnalyze(resp) ELSE ToulminAnalyze(resp)
              new == IF graph_data = 1 THEN 2 ELSE 1
          IN  /\ data' = IF resp.ok THEN resp.val ELSE JNull
              /\ IF result.ok
                 THEN /\ heap' = [heap EXCEPT ![new] = result.val]
                      /\ local_graph' = new
                      /\ pc' = "init_positions"
                      /\ UNCHANGED <<graph_data, errors_shown, failed_step>>
                 ELSE /\ Fail("analyze")
                      /\ UNCHANGED <<heap, local_graph>>
    /\ UNCHANGED <<vectors, positions, inputVars, embed_calls, before, rendered,
                   pageVars, plotVars>>

\* every node's position_2d is set to None, the graph is stored in the
\* session, and the topic analysis is entered or skipped
InitPositions ==
    /\ pc = "init_positions"
    /\ LET cleared == [heap[local_graph] EXCEPT !.nodes =
                          [i \in DOMAIN @ |-> [@[i] EXCEPT !.position_2d = None]]]
       IN  /\ heap' = Collect([heap EXCEPT ![local_graph] = cleared], {local_graph})
           /\ pc' = IF TopicAnalysisWanted(use_topic_analysis, cleared)
                    THEN "embed" ELSE "render"
    /\ graph_data' = local_graph
    /\ UNCHANGED <<local_graph, vectors, positions, inputVars, runVars, pageVars,
                   data, plotVars>>

\* vectors = llm.fetch_embeddings(node_contents)
Embed ==
    /\ pc = "embed"
    /\ embed_calls' = embed_calls + 1
    /\ LET node_contents == [i \in DOMAIN heap[local_graph].nodes |->
                                heap[local_graph].nodes[i].content]
       IN  \E out \in FetchEmbeddingsOutcomes(node_contents) :
              IF out.ok
              THEN /\ vectors' = out.val
                   /\ pc' = "reduce"
                   /\ UNCHANGED <<graph_data, errors_shown, failed_step>>
              ELSE /\ Fail("embed")
                   /\ UNCHANGED vectors
    /\ UNCHANGED <<heap, local_graph, positions, inputVars, extract_calls, before,
                   rendered, pageVars, data, plotVars>>

\* positions = reduce_dimensions_pca(vectors)
Reduce ==
    /\ pc = "reduce"
    /\ \E out \in ReduceOutcomes(vectors) :
          IF out.ok
          THEN /\ positions' = out.val
               /\ pc' = "attach"
               /\ UNCHANGED <<graph_data, errors_shown, failed_step>>
          ELSE /\ Fail("reduce")
               /\ UNCHANGED positions
    /\ UNCHANGED <<heap, local_graph, vectors, inputVars, extract_calls, embed_calls,
                   before, rendered, pageVars, data, plotVars>>

\* the loop that gives node i positions[i], which raises IndexError at the
\* first node without one, and the store of the graph in the session
Attach ==
    /\ pc = "attach"
    /\ LET n == Len(heap[local_graph].nodes)
           m == Len(positions)
       IN  /\ heap' = [heap EXCEPT ![local_graph].nodes =
                         [i \in DOMAIN @ |->
                            IF i <= m
                            THEN [@[i] EXCEPT !.position_2d = Some(positions[i])]
                            ELSE @[i]]]
           /\ IF m >= n
              THEN /\ graph_data' = local_graph
                   /\ pc' = "render"
                   /\ UNCHANGED <<errors_shown, failed_step>>
              ELSE Fail("attach")
    /\ UNCHANGED <<local_graph, vectors, positions, inputVars, extract_calls,
                   embed_calls, before, rendered, pageVars, data, plotVars>>

\* the main area: both charts and the JSON dump of the session's graph, or
\* the hint to run the analysis; the run of main() ends
Render ==
    /\ pc = "render"
    /\ IF graph_data # 0
       THEN /\ topic_map_chart' = generate_plot(heap[graph_data])
            /\ timeline_chart' = generate_timeline_plot(heap[graph_data])
            /\ json_shown' = Some(heap[graph_data])
       ELSE /\ topic_map_chart' = None
            /\ timeline_chart' = None
            /\ json_shown' = None
    /\ rendered' = TRUE
    /\ pc' = "idle"
    /\ local_graph' = 0
    /\ vectors' = <<>>
    /\ positions' = <<>>
    /\ heap' = Collect(heap, {graph_data})
    /\ UNCHANGED <<graph_data, inputVars, extract_calls, embed_calls, errors_shown,
                   failed_step, before, data, plotVars>>

Init ==
    /\ AppIdle
    /\ graph = EmptyGraph
    /\ graph2 = EmptyGraph
    /\ called = "none"
    /\ chart = None
    /\ chart2 = None
    /\ constructed = "yes"
    /\ data = JNull

Next ==
    \/ BeginRun
    \/ Analyze
    \/ InitPositions
    \/ Embed
    \/ Reduce
    \/ Attach
    \/ Render

Spec == Init /\ [][Next]_vars

\* ------------------------------------------------------------------------
\* Properties of the plotting functions
\* ------------------------------------------------------------------------

HasPosition(n) == TruthySeq(n.position_2d)

\* C1: a call of generate_plot or generate_timeline_plot returns None
\* whenever the graph has fewer than 2 nodes or some node has no 2-D
\* position.
NoPlotBelowTwoNodesOrWithoutPositions ==
    called # "none" =>
       ((\/ Len(graph.nodes) < 2
         \/ \E i \in DOMAIN graph.nodes : ~HasPosition(graph.nodes[i]))
        => chart = None)

\* C2, as claimed: for a graph in which some nodes have no sequence and the
\* others have a sequence and a position, generate_timeline_plot returns a
\* timeline of exactly the nodes that have a sequence.
TimelineOmitsNodesWithoutSequence ==
    (/\ called = "generate_timeline_plot"
     /\ \E i \in DOMAIN graph.nodes : graph.nodes[i].sequence = None
     /\ \E i \in DOMAIN graph.nodes : graph.nodes[i].sequence # None
     /\ \A i \in DOMAIN graph.nodes :
           graph.nodes[i].sequence # None => HasPosition(graph.nodes[i]))
    => /\ chart.some
       /\ {chart.val.nodes[k].id : k \in DOMAIN chart.val.nodes}
            = {graph.nodes[i].id : i \in {j \in DOMAIN graph.nodes :
                                             graph.nodes[j].sequence # None}}

\* C2, amended: generate_timeline_plot returns None for every graph in which
\* some node has no sequence; a timeline it returns has one row per node of
\* the graph, in order, each with the node's sequence.
TimelineNeedsEverySequence ==
    called = "generate_timeline_plot" =>
       /\ (\E i \in DOMAIN graph.nodes : graph.nodes[i].sequence = None)
             => chart = None
       /\ chart.some =>
             /\ Len(chart.val.nodes) = Len(graph.nodes)
             /\ \A i \in DOMAIN graph.nodes :
                   /\ chart.val.nodes[i].id = graph.nodes[i].id
                   /\ chart.val.nodes[i].sequence = graph.nodes[i].sequence
                   /\ graph.nodes[i].sequence # None

TimelineRefusedForMissingSequence ==
    /\ called = "generate_timeline_plot"
    /\ \E i \in DOMAIN graph.nodes : graph.nodes[i].sequence = None
    /\ \E i \in DOMAIN graph.nodes :
          graph.nodes[i].sequence # None /\ HasPosition(graph.nodes[i])
    /\ \A i \in DOMAIN graph.nodes :
          graph.nodes[i].sequence # None => HasPosition(graph.nodes[i])
    /\ chart = None

Colour(row) == <<row.r, row.g, row.b, row.color_rgb>>

PositionsOf(gr) == [i \in DOMAIN gr.nodes |-> gr.nodes[i].position_2d]

\* C3: two graphs with the same list of positions get the same colour for
\* each node from the same plotting function, whatever their other
\* attributes and edges; and in one plot two nodes with equal coordinates
\* get the same colour.
ColourDependsOnCoordinatesOnly ==
    /\ (chart.some /\ chart2.some /\ PositionsOf(graph) = PositionsOf(graph2))
          => \A i \in DOMAIN graph.nodes :
                Colour(chart.val.nodes[i]) = Colour(chart2.val.nodes[i])
    /\ chart.some =>
          \A i, j \in DOMAIN graph.nodes :
             graph.nodes[i].position_2d = graph.nodes[j].position_2d
                => Colour(chart.val.nodes[i]) = Colour(chart.val.nodes[j])
    /\ chart2.some =>
          \A i, j \in DOMAIN graph2.nodes :
             graph2.nodes[i].position_2d = graph2.nodes[j].position_2d
                => Colour(chart2.val.nodes[i]) = Colour(chart2.val.nodes[j])

TwoGraphsSamePositionsPlotted ==
    /\ chart.some
    /\ chart2.some
    /\ PositionsOf(graph) = PositionsOf(graph2)
    /\ Len(graph.nodes) >= 3
    /\ graph2.edges # graph.edges
    /\ \E i \in DOMAIN graph.nodes :
          /\ graph2.nodes[i].id # graph.nodes[i].id
          /\ graph2.nodes[i].type # graph.nodes[i].type
          /\ graph2.nodes[i].sequence # graph.nodes[i].sequence
          /\ graph2.nodes[i].speaker # graph.nodes[i].speaker
          /\ graph2.nodes[i].content # graph.nodes[i].content
    /\ \E i, j \in DOMAIN graph.nodes :
          /\ i # j
          /\ graph2.nodes[i].position_2d = graph2.nodes[j].position_2d
          /\ graph2.nodes[i].type # graph2.nodes[j].type
    /\ \E i, j \in DOMAIN graph.nodes :
          Colour(chart.val.nodes[i]) # Colour(chart.val.nodes[j])

AllSame(col) == \A i, j \in DOMAIN col : col[i] = col[j]

\* C4: in every plot, when all nodes share the same x the red component of
\* every node is 128, when all share the same y the green component of
\* every node is 128, each axis on its own, and no division by a zero range
\* was performed.
DegenerateRangeGivesMidColour ==
    chart.some =>
       /\ AllSame(XColumn(graph.nodes))
             => \A i \in DOMAIN graph.nodes : chart.val.nodes[i].r = 128
       /\ AllSame(YColumn(graph.nodes))
             => \A i \in DOMAIN graph.nodes : chart.val.nodes[i].g = 128
       /\ 0 \notin chart.val.divided_by

OneAxisDegeneratePlotted ==
    /\ chart.some
    /\ Len(graph.nodes) >= 2
    /\ AllSame(XColumn(graph.nodes))
    /\ ~AllSame(YColumn(graph.nodes))
    /\ \A i \in DOMAIN graph.nodes : chart.val.nodes[i].r = 128
    /\ \E i \in DOMAIN graph.nodes : chart.val.nodes[i].g # 128

\* C10: in every plot red and green of every node are in 50..255 and blue is
\* 128; on an axis whose range is not degenerate the nodes at its minimum
\* get 50 and the nodes at its maximum get 255; the colour code is "#" and
\* three components of exactly two hex digits.
ColourComponentsInRange ==
    chart.some =>
       LET rows == chart.val.nodes
           xs == XColumn(graph.nodes)
           ys == YColumn(graph.nodes)
       IN  /\ \A i \in DOMAIN rows :
                 /\ rows[i].r \in 50..255
                 /\ rows[i].g \in 50..255
                 /\ rows[i].b = 128
                 /\ Len(rows[i].color_rgb) = 7
                 /\ rows[i].color_rgb[1] = "#"
           /\ ~AllSame(xs) =>
                 \A i \in DOMAIN rows :
                    /\ (\A j \in DOMAIN xs : xs[i] <= xs[j]) => rows[i].r = 50
                    /\ (\A j \in DOMAIN xs : xs[i] >= xs[j]) => rows[i].r = 255
           /\ ~AllSame(ys) =>
                 \A i \in DOMAIN rows :
                    /\ (\A j \in DOMAIN ys : ys[i] <= ys[j]) => rows[i].g = 50
                    /\ (\A j \in DOMAIN ys : ys[i] >= ys[j]) => rows[i].g = 255

FullRangePlotted ==
    /\ chart.some
    /\ \E i, j, k \in DOMAIN chart.val.nodes :
          /\ chart.val.nodes[i].r = 50
          /\ chart.val.nodes[j].r = 255
          /\ chart.val.nodes[k].r \in 51..254
          /\ chart.val.nodes[k].r # 128
          /\ chart.val.nodes[i].color_rgb[2] = "3"
          /\ chart.val.nodes[j].color_rgb[2] = "f"

NamesNode(id) == \E i \in DOMAIN graph.nodes : graph.nodes[i].id = id

NodeNamed(id) == graph.nodes[CHOOSE i \in DOMAIN graph.nodes : graph.nodes[i].id = id]

\* the edges of graph whose source and target both name a node
EdgesWithBothEnds ==
    {k \in DOMAIN graph.edges :
        NamesNode(graph.edges[k].source) /\ NamesNode(graph.edges[k].target)}

\* where a plotting function puts a node: (x, y) on the topic map,
\* (sequence, speaker) on the timeline
PlaceOf(n) ==
    IF called = "generate_plot"
    THEN <<n.position_2d.val[1], n.position_2d.val[2]>>
    ELSE <<n.sequence, IF TruthyStr(n.speaker) THEN n.speaker.val ELSE "Unknown">>

\* C9: a graph with an edge whose source or target names no node is
\* constructed without a validation error and plotted without error; the
\* plot's edge table holds, in order, exactly the edges whose source and
\* target both name nodes, each between the places of its two nodes.
DanglingEdgesAcceptedAndOmitted ==
    /\ constructed # "ValidationError"
    /\ constructed = "yes" =>
          /\ Len(graph.edges) = Len(data.edges.v)
          /\ \A k \in DOMAIN graph.edges :
                /\ graph.edges[k].source = data.edges.v[k].source.v
                /\ graph.edges[k].target = data.edges.v[k].target.v
    /\ chart.some =>
          /\ Len(chart.val.edges) = Cardinality(EdgesWithBothEnds)
          /\ \A k \in EdgesWithBothEnds :
                LET drawn == chart.val.edges[Cardinality({j \in EdgesWithBothEnds : j <= k})]
                    s == PlaceOf(NodeNamed(graph.edges[k].source))
                    t == PlaceOf(NodeNamed(graph.edges[k].target))
                IN  /\ drawn.x1 = s[1]
                    /\ drawn.y1 = s[2]
                    /\ drawn.x2 = t[1]
                    /\ drawn.y2 = t[2]

DanglingEdgeOmittedFromPlot ==
    /\ chart.some
    /\ called = "generate_plot"
    /\ Len(graph.edges) = 2
    /\ Len(chart.val.edges) = 1
    /\ NamesNode(graph.edges[1].source)
    /\ ~NamesNode(graph.edges[1].target)
    /\ graph.edges[2].source # graph.edges[2].target

\* ------------------------------------------------------------------------
\* Properties of the page
\* ------------------------------------------------------------------------

IBISTypes == {"issue", "position", "argument", "decision"}

\* C5: a graph returned by IBISStrategy.analyze has only nodes whose type
\* is one of issue, position, argument, decision.
IBISGraphHasOnlyIBISTypes ==
    (pc = "init_positions" /\ UsesIBIS(strategy_option)) =>
       \A i \in DOMAIN heap[local_graph].nodes :
          heap[local_graph].nodes[i].type \in IBISTypes

\* C6: an exception raised by any step of the chain is caught by the one
\* handler, which shows one error; it does not leave main, and the main
\* area of the page is rendered before the run ends.
ExceptionCaughtOnceAndPageRendered ==
    /\ pc # "crashed"
    /\ failed_step = "none" => errors_shown = 0
    /\ failed_step # "none" =>
          /\ errors_shown = 1
          /\ pc \in {"render", "idle"}
          /\ pc = "idle" => rendered

AttachFailureShownAndRendered ==
    /\ failed_step = "attach"
    /\ errors_shown = 1
    /\ pc = "idle"
    /\ rendered

\* C7, as claimed: after a run in which a step failed, graph_data is what it
\* was before the button press and no graph of the failed run is shown.
NothingKeptOfFailedRun ==
    (failed_step # "none" /\ pc \in {"render", "idle"}) =>
       /\ SessionGraph = before
       /\ rendered => json_shown = before

WithoutPosition(n) == [n EXCEPT !.position_2d = None]

\* C7, amended: after a failed extraction graph_data is what it was before
\* the button press; after a failed embedding, projection or attachment it
\* is the graph this run extracted, with no position or with positions on
\* its first nodes only, and that graph is dumped while neither chart is
\* drawn.
FailedRunKeepsOnlyTheExtractedGraph ==
    (failed_step # "none" /\ pc \in {"render", "idle"}) =>
       /\ failed_step = "analyze" =>
             /\ SessionGraph = before
             /\ rendered => json_shown = before
       /\ failed_step \in {"embed", "reduce", "attach"} =>
             /\ graph_data # 0
             /\ GraphValid(data)
             /\ LET g == heap[graph_data]
                    extracted == GraphOf(data)
                IN  /\ g.edges = extracted.edges
                    /\ Len(g.nodes) = Len(extracted.nodes)
                    /\ \A i \in DOMAIN g.nodes :
                          WithoutPosition(g.nodes[i]) = WithoutPosition(extracted.nodes[i])
                    /\ \E i \in DOMAIN g.nodes : g.nodes[i].position_2d = None
                    /\ failed_step # "attach" =>
                          \A i \in DOMAIN g.nodes : g.nodes[i].position_2d = None
                    /\ \A i, j \in DOMAIN g.nodes :
                          (i < j /\ g.nodes[j].position_2d # None)
                             => g.nodes[i].position_2d # None
                    /\ rendered =>
                          /\ json_shown = Some(g)
                          /\ topic_map_chart = None
                          /\ timeline_chart = None

ExtractedGraphKeptAfterFailedEmbedding ==
    /\ failed_step = "embed"
    /\ pc = "idle"
    /\ before # None
    /\ SessionGraph # before
    /\ json_shown = SessionGraph

\* C8: a press with non-blank text makes exactly one extraction call and at
\* most one embedding call; the embedding call is made only after the
\* extraction returned a graph with a node and with the topic analysis
\* enabled; after a failed call no call follows in the run; a run without a
\* press or with blank text makes no call.
OneChainOfCallsPerPress ==
    /\ extract_calls <= 1
    /\ embed_calls <= 1
    /\ (~button \/ text_blank) => (extract_calls = 0 /\ embed_calls = 0)
    /\ (button /\ ~text_blank /\ pc # "analyze") => extract_calls = 1
    /\ embed_calls = 1 =>
          /\ extract_calls = 1
          /\ failed_step # "analyze"
          /\ GraphValid(data)
          /\ Len(data.nodes.v) >= 1
          /\ use_topic_analysis
    /\ failed_step = "analyze" => (extract_calls = 1 /\ embed_calls = 0)
    /\ failed_step \in {"embed", "reduce", "attach"} =>
          (extract_calls = 1 /\ embed_calls = 1)

BothCallsMadeThenFailure ==
    /\ pc = "idle"
    /\ button
    /\ ~text_blank
    /\ extract_calls = 1
    /\ embed_calls = 1
    /\ failed_step = "embed"

====
